---- MODULE Spec2Model ----
(***************************************************************************)
(* Model of webapp/pages/1_visualizations.py: the page script that turns   *)
(* the session's transaction ledger into monthly cash-flow buckets, a      *)
(* dense calendar grid and per-month heatmap panels, and renders them.     *)
(*                                                                         *)
(* Dates are proleptic Gregorian day ordinals (what a pandas Timestamp at  *)
(* midnight carries); the ledger gives them as <<year, month, day>> and    *)
(* pd.to_datetime converts.  Amounts are integers counting 1/Unit of a     *)
(* currency unit, so that round() has something to round.  The bank and    *)
(* description columns are read by no computation below and are left out.  *)
(***************************************************************************)
EXTENDS Integers, Sequences, FiniteSets, TLC

VARIABLES
    session,                 \* st.session_state: NoDf, or the ledger held under "df"
    pc,                      \* position of the page script
    error,                   \* the exception that ended the script, or "none"
    bar_df,                  \* result of prepare_data_for_stacked_bar_chart
    chart,                   \* what st.plotly_chart returned in show_stacked_bar_chart
    metrics,                 \* locals of show_stacked_bar_chart, lines 180-193
    heat_df,                 \* result of prepare_heatmap_data
    grid,                    \* df of show_monthly_heatmaps after lines 75-77
    panels,                  \* the go.Heatmap traces, in the order they are added
    min_val, max_val,        \* arguments of create_custom_colorscale
    custom_colorscale,       \* its result
    out                      \* what has been rendered, in order

vars == <<session, pc, error, bar_df, chart, metrics, heat_df, grid, panels,
          min_val, max_val, custom_colorscale, out>>

----------------------------------------------------------------------------
(* Bounds *)

\* longest ledger explored
MaxLen == 2

\* amounts are multiples of 1/Unit
Unit == 4

\* transaction dates explored: a 1 January that ISO-8601 puts in week 52 of the
\* year before, and two days of the February of the leap year after it, the
\* leap day among them (that year's 30 and 31 December are in ISO week 1)
TxDates == { <<2023, 1, 1>>, <<2024, 2, 3>>, <<2024, 2, 29>> }

\* transaction amounts explored, in 1/Unit
TxAmounts == { -6, 0, 1, 6 }

\* (min_val, max_val) arguments explored for create_custom_colorscale
ColorVals == { -2000, -1000, -999, -100, -50, -10, -1, 0, 1, 10, 50, 100,
               999, 1000, 2000 }

----------------------------------------------------------------------------
(* Arithmetic helpers *)

Abs(x) == IF x < 0 THEN -x ELSE x

\* the sequence s as an explicit tuple, every element computed once
Tuple(s) == s \o << >>

\* sum of s[lo..hi], by halving (the frames are hundreds of rows long)
RECURSIVE SumRange(_, _, _)
SumRange(s, lo, hi) ==
    IF lo > hi THEN 0
    ELSE IF lo = hi THEN s[lo]
    ELSE LET mid == (lo + hi) \div 2
         IN  SumRange(s, lo, mid) + SumRange(s, mid + 1, hi)

\* Series.sum(): the sum of a sequence of numbers, 0 for none
Sum(s) == SumRange(s, 1, Len(s))

\* concatenation of the sequences ss[lo..hi]
RECURSIVE ConcatRange(_, _, _)
ConcatRange(ss, lo, hi) ==
    IF lo > hi THEN << >>
    ELSE IF lo = hi THEN ss[lo]
    ELSE LET mid == (lo + hi) \div 2
         IN  ConcatRange(ss, lo, mid) \o ConcatRange(ss, mid + 1, hi)

\* the elements of a finite set of integers, ascending
SortedSeq(S) ==
    IF S = {} THEN << >>
    ELSE LET n == Cardinality(S)
         IN  Tuple([ i \in 1..n |-> CHOOSE x \in S : Cardinality({ y \in S : y < x }) = i - 1 ])

SetMin(S) == CHOOSE x \in S : \A y \in S : x <= y
SetMax(S) == CHOOSE x \in S : \A y \in S : x >= y

----------------------------------------------------------------------------
(* Calendar: what pandas' Timestamp fields compute *)

IsLeap(y) == (y % 4 = 0) /\ ((y % 100 # 0) \/ (y % 400 = 0))

DaysInMonth(y, m) ==
    IF m = 2 THEN (IF IsLeap(y) THEN 29 ELSE 28)
    ELSE IF m \in {4, 6, 9, 11} THEN 30 ELSE 31

DaysInYear(y) == IF IsLeap(y) THEN 366 ELSE 365

DaysBeforeYear(y) ==
    LET p == y - 1 IN p * 365 + (p \div 4) - (p \div 100) + (p \div 400)

DaysBeforeMonth(y, m) ==
    SumRange([ k \in 1..12 |-> DaysInMonth(y, k) ], 1, m - 1)

\* pd.to_datetime of a calendar date: 0001-01-01 is ordinal 1
ToOrdinal(y, m, d) == DaysBeforeYear(y) + DaysBeforeMonth(y, m) + d

\* Timestamp.year
YearOf(o) ==
    LET n0   == o - 1
        n400 == n0 \div 146097
        r400 == n0 % 146097
        n100 == r400 \div 36524
        r100 == r400 % 36524
        n4   == r100 \div 1461
        r4   == r100 % 1461
        n1   == r4 \div 365
        y    == n400 * 400 + n100 * 100 + n4 * 4 + n1 + 1
    IN  IF n1 = 4 \/ n100 = 4 THEN y - 1 ELSE y

DayOfYear(o) == o - DaysBeforeYear(YearOf(o))

\* Timestamp.month
MonthOf(o) ==
    LET y == YearOf(o)
        n == DayOfYear(o)
    IN  CHOOSE m \in 1..12 :
            /\ DaysBeforeMonth(y, m) < n
            /\ n <= DaysBeforeMonth(y, m) + DaysInMonth(y, m)

\* Timestamp.day
DayOf(o) == DayOfYear(o) - DaysBeforeMonth(YearOf(o), MonthOf(o))

\* Timestamp.dayofweek: Monday is 0
DayOfWeek(o) == (o + 6) % 7

\* number of ISO-8601 weeks of year y
IsoWeeksInYear(y) ==
    LET jan1 == DayOfWeek(ToOrdinal(y, 1, 1))
    IN  IF jan1 = 3 \/ (jan1 = 2 /\ IsLeap(y)) THEN 53 ELSE 52

\* Timestamp.isocalendar().week
IsoWeek(o) ==
    LET y == YearOf(o)
        w == (DayOfYear(o) - (DayOfWeek(o) + 1) + 10) \div 7
    IN  IF w < 1 THEN IsoWeeksInYear(y - 1)
        ELSE IF w > IsoWeeksInYear(y) THEN 1
        ELSE w

\* 'MS' resampling bin of a timestamp, as a month count
MonthIndex(o) == YearOf(o) * 12 + (MonthOf(o) - 1)

----------------------------------------------------------------------------
(* The ledger *)

NoDf == [present |-> FALSE]

Transaction == [date : TxDates, amount : TxAmounts]

Ledgers == UNION { [1..n -> Transaction] : n \in 0..MaxLen }

HasDf == session.present

----------------------------------------------------------------------------
(* Numbers and their formatting *)

\* Python's round() of a float holding q/Unit: to the nearest integer, ties to even
Round(q) ==
    LET fl  == q \div Unit
        rem == q % Unit
    IN  IF 2 * rem < Unit THEN fl
        ELSE IF 2 * rem > Unit THEN fl + 1
        ELSE IF fl % 2 = 0 THEN fl ELSE fl + 1

ZeroDivisionError == [zerodiv |-> TRUE, num |-> 0, den |-> 0]

\* a / b on numbers: the exact quotient, or the exception
Divide(a, b) ==
    IF b = 0 THEN ZeroDivisionError
    ELSE [zerodiv |-> FALSE, num |-> a, den |-> b]

Digits == << "0", "1", "2", "3", "4", "5", "6", "7", "8", "9" >>

\* str() of a natural number
RECURSIVE ToStr(_)
ToStr(n) ==
    IF n < 10 THEN Digits[n + 1]
    ELSE ToStr(n \div 10) \o Digits[(n % 10) + 1]

\* f"{n:02d}" of a natural number
Pad2(n) == IF n < 10 THEN "0" \o ToStr(n) ELSE ToStr(n)

\* f"{n:,}" of an integer
RECURSIVE FmtComma(_)
FmtComma(n) ==
    IF n < 0 THEN "-" \o FmtComma(-n)
    ELSE IF n < 1000 THEN ToStr(n)
    ELSE LET r == n % 1000
         IN  FmtComma(n \div 1000) \o "," \o
             (IF r < 10 THEN "00" ELSE IF r < 100 THEN "0" ELSE "") \o ToStr(r)

\* f"{x:.2f}" of the number num/den (den > 0): two decimals, nearest, the sign
\* kept even when the digits round to zero
FmtFixed2(num, den) ==
    LET a   == Abs(num) * 100
        fl  == a \div den
        rem == a % den
        h   == IF 2 * rem < den THEN fl
               ELSE IF 2 * rem > den THEN fl + 1
               ELSE IF fl % 2 = 0 THEN fl ELSE fl + 1
    IN  (IF num < 0 THEN "-" ELSE "") \o ToStr(h \div 100) \o "." \o Pad2(h % 100)

----------------------------------------------------------------------------
(* prepare_data_for_stacked_bar_chart *)

\* line 31: lambda x: x if x > 0 else 0
IncomeOf(x) == IF x > 0 THEN x ELSE 0

\* ExpensesOf without the abs()
ExpensesOf_Signed(x) == IF x < 0 THEN x ELSE 0

\* line 32: lambda x: abs(x) if x < 0 else 0
ExpensesOf(x) == IF x < 0 THEN Abs(x) ELSE 0

\* lines 28-33: the frame indexed by timestamp, with the two derived columns
BarRows(df) ==
    Tuple([ i \in 1..Len(df) |->
        [ date     |-> ToOrdinal(df[i].date[1], df[i].date[2], df[i].date[3]),
          amount   |-> df[i].amount,
          Income   |-> IncomeOf(df[i].amount),
          Expenses |-> ExpensesOf(df[i].amount) ] ])

\* ResampleMS as a group-by: bins only for the months that hold rows
ResampleMS_PresentOnly(rows) ==
    LET ms == SortedSeq({ MonthIndex(rows[i].date) : i \in 1..Len(rows) })
        In(k, i) == MonthIndex(rows[i].date) = k
    IN  Tuple([ b \in 1..Len(ms) |->
                 [ month    |-> ms[b],
                   amount   |-> Sum([ i \in 1..Len(rows) |->
                                         IF In(ms[b], i) THEN rows[i].amount ELSE 0 ]),
                   Income   |-> Sum([ i \in 1..Len(rows) |->
                                         IF In(ms[b], i) THEN rows[i].Income ELSE 0 ]),
                   Expenses |-> Sum([ i \in 1..Len(rows) |->
                                         IF In(ms[b], i) THEN rows[i].Expenses ELSE 0 ]) ] ])

\* line 34: resample("MS").sum(): one bin for every month from the earliest row's
\* month to the latest row's month, a bin without rows summing to 0
ResampleMS(rows) ==
    IF rows = << >> THEN << >>
    ELSE LET ms == { MonthIndex(rows[i].date) : i \in 1..Len(rows) }
             lo == SetMin(ms)
             hi == SetMax(ms)
             In(k, i) == MonthIndex(rows[i].date) = k
         IN  Tuple([ b \in 1..(hi - lo + 1) |->
                 LET k == lo + b - 1
                 IN  [ month    |-> k,
                       amount   |-> Sum([ i \in 1..Len(rows) |->
                                             IF In(k, i) THEN rows[i].amount ELSE 0 ]),
                       Income   |-> Sum([ i \in 1..Len(rows) |->
                                             IF In(k, i) THEN rows[i].Income ELSE 0 ]),
                       Expenses |-> Sum([ i \in 1..Len(rows) |->
                                             IF In(k, i) THEN rows[i].Expenses ELSE 0 ]) ] ])

prepare_data_for_stacked_bar_chart(df) == ResampleMS(BarRows(df))

----------------------------------------------------------------------------
(* show_stacked_bar_chart *)

\* df["Income"].sum(), df["Expenses"].sum(), df["amount"].sum()
IncomeSum(df) == Sum([ i \in 1..Len(df) |-> df[i].Income ])
ExpensesSum(df) == Sum([ i \in 1..Len(df) |-> df[i].Expenses ])
AmountSum(df) == Sum([ i \in 1..Len(df) |-> df[i].amount ])

\* SavingsRate without the guard on total_income
SavingsRate_Unguarded(total_savings, total_income) ==
    LET q == Divide(total_savings, total_income)
    IN  IF q.zerodiv THEN q ELSE [q EXCEPT !.num = q.num * 100]

\* lines 183-186
SavingsRate(total_savings, total_income) ==
    IF total_income > 0
    THEN LET q == Divide(total_savings, total_income)
         IN  IF q.zerodiv THEN q ELSE [q EXCEPT !.num = q.num * 100]
    ELSE [zerodiv |-> FALSE, num |-> 0, den |-> 1]

\* lines 189-193
FormatTotalSavings(total_savings) ==
    IF total_savings < 0
    THEN "-$" \o FmtComma(Abs(total_savings))
    ELSE "$" \o FmtComma(total_savings)

NoMetrics ==
    [ computed |-> FALSE, total_income |-> 0, total_expenses |-> 0,
      total_savings |-> 0, savings_rate |-> [zerodiv |-> FALSE, num |-> 0, den |-> 1],
      formatted_savings_rate |-> "", formatted_total_savings |-> "" ]

\* lines 180-193
Metrics(df) ==
    LET ti == Round(IncomeSum(df))
        te == Round(ExpensesSum(df))
        ts == Round(AmountSum(df))
        sr == SavingsRate(ts, ti)
    IN  [ computed               |-> TRUE,
          total_income           |-> ti,
          total_expenses         |-> te,
          total_savings          |-> ts,
          savings_rate           |-> sr,
          formatted_savings_rate |-> IF sr.zerodiv THEN ""
                                     ELSE FmtFixed2(sr.num, sr.den) \o "%",
          formatted_total_savings |-> FormatTotalSavings(ts) ]

\* lines 129-177: the three traces of the figure
CashFlowFigure(df) ==
    [ kind     |-> "plotly_chart",
      title    |-> "Cash Flow",
      income   |-> Tuple([ i \in 1..Len(df) |-> df[i].Income ]),
      expenses |-> Tuple([ i \in 1..Len(df) |-> - df[i].Expenses ]),
      savings  |-> Tuple([ i \in 1..Len(df) |-> df[i].Income - df[i].Expenses ]) ]

\* render_metric, lines 14-25
render_metric(title, value) == [ kind |-> "metric", title |-> title, value |-> value ]

\* RenderedMetrics without the "if chart" guard
RenderedMetrics_Unguarded(result, m) ==
    << render_metric("Income", "$" \o FmtComma(m.total_income)),
       render_metric("Expenses", "$" \o FmtComma(m.total_expenses)),
       render_metric("Total Savings", m.formatted_total_savings),
       render_metric("Savings Rate", m.formatted_savings_rate) >>

\* lines 197-201
RenderedMetrics(result, m) ==
    IF result = "truthy"
    THEN << render_metric("Income", "$" \o FmtComma(m.total_income)),
            render_metric("Expenses", "$" \o FmtComma(m.total_expenses)),
            render_metric("Total Savings", m.formatted_total_savings),
            render_metric("Savings Rate", m.formatted_savings_rate) >>
    ELSE << >>

ChartResults == { "truthy", "falsy", "raises" }

----------------------------------------------------------------------------
(* prepare_heatmap_data *)

\* a frame cell holding a number, and the missing value
Num(n) == [nan |-> FALSE, v |-> n]
NaN == [nan |-> TRUE, v |-> 0]

\* lines 42-45 and 68-71: the coordinate columns derived from a timestamp
ComputeCoordinates(o) ==
    [ date |-> o, year |-> YearOf(o), month |-> MonthOf(o),
      day |-> DayOfWeek(o), week |-> IsoWeek(o) ]

\* the same, tabulated once over the years the explored dates span
TableFirst == ToOrdinal(SetMin({ d[1] : d \in TxDates }), 1, 1)
TableLast == ToOrdinal(SetMax({ d[1] : d \in TxDates }), 12, 31)
CoordinateTable ==
    Tuple([ i \in 1..(TableLast - TableFirst + 1) |-> ComputeCoordinates(TableFirst + i - 1) ])

Coordinates(o) ==
    IF TableFirst <= o /\ o <= TableLast
    THEN CoordinateTable[o - TableFirst + 1]
    ELSE ComputeCoordinates(o)

\* GroupAmount keeping a date's first row instead of summing
GroupAmount_First(rows, o) ==
    rows[SetMin({ i \in 1..Len(rows) : rows[i].date = o })].amount

\* line 40: groupby('date').agg({'amount': 'sum'}): one row per distinct date
\* (ascending), its amount the sum of that date's rows
GroupAmount(rows, o) ==
    Sum([ i \in 1..Len(rows) |-> IF rows[i].date = o THEN rows[i].amount ELSE 0 ])

GroupByDate(rows) ==
    LET dates == SortedSeq({ rows[i].date : i \in 1..Len(rows) })
    IN  Tuple([ k \in 1..Len(dates) |->
                  [ date |-> dates[k], amount |-> GroupAmount(rows, dates[k]) ] ])

\* lines 38-39
HeatRows(df) ==
    Tuple([ i \in 1..Len(df) |->
        [ date   |-> ToOrdinal(df[i].date[1], df[i].date[2], df[i].date[3]),
          amount |-> df[i].amount ] ])

prepare_heatmap_data(df) ==
    LET g == GroupByDate(HeatRows(df))
    IN  Tuple([ k \in 1..Len(g) |->
            [ date   |-> g[k].date,
              amount |-> g[k].amount,
              month  |-> MonthOf(g[k].date),
              year   |-> YearOf(g[k].date),
              week   |-> IsoWeek(g[k].date),
              day    |-> DayOfWeek(g[k].date) ] ])

----------------------------------------------------------------------------
(* create_custom_colorscale *)

MinVal == -1000
MaxVal == 1000

\* normalize dividing by max_val instead of the range
normalize_ByMax(x, mn, mx) == Divide(x - mn, mx)

\* lines 51-52
normalize(x, mn, mx) == Divide(x - mn, mx - mn)

AnchorValues == << -1000, -100, -10, 0, 10, 100, 1000 >>

AnchorColors == << "rgb(139,0,0)", "rgb(255,0,0)", "rgb(255,200,200)", "rgb(255,255,255)",
                   "rgb(200,255,200)", "rgb(0,255,0)", "rgb(0,100,0)" >>

\* lines 54-63
create_custom_colorscale(mn, mx) ==
    Tuple([ i \in 1..7 |-> << normalize(AnchorValues[i], mn, mx), AnchorColors[i] >> ])

----------------------------------------------------------------------------
(* show_monthly_heatmaps *)

\* AllDays with the range started at the first transaction date
AllDays_FromFirstDate(df) ==
    LET ys    == { df[i].year : i \in 1..Len(df) }
        start == SetMin({ df[i].date : i \in 1..Len(df) })
        end   == ToOrdinal(SetMax(ys), 12, 31)
    IN  Tuple([ i \in 1..(end - start + 1) |-> start + i - 1 ])

\* line 66: pd.date_range(start=f"{min year}-01-01", end=f"{max year}-12-31", freq='D')
AllDays(df) ==
    LET ys    == { df[i].year : i \in 1..Len(df) }
        start == ToOrdinal(SetMin(ys), 1, 1)
        end   == ToOrdinal(SetMax(ys), 12, 31)
    IN  Tuple([ i \in 1..(end - start + 1) |-> start + i - 1 ])

\* lines 67-72
AllDaysDf(all_days) ==
    Tuple([ i \in 1..Len(all_days) |-> Coordinates(all_days[i]) ])

SameKeys(l, r) ==
    /\ l.date = r.date
    /\ l.year = r.year
    /\ l.month = r.month
    /\ l.day = r.day
    /\ l.week = r.week

\* line 75: the rows a left row yields in a left merge: one per matching right row,
\* or one with a missing right amount
MergedRows(l, right) ==
    LET hits == SelectSeq(right, LAMBDA r : SameKeys(l, r))
    IN  IF hits = << >>
        THEN << [ key |-> l, amount_all |-> 0, amount_orig |-> NaN ] >>
        ELSE Tuple([ k \in 1..Len(hits) |->
                 [ key |-> l, amount_all |-> 0, amount_orig |-> Num(hits[k].amount) ] ])

MergeLeft(left, right) ==
    ConcatRange([ i \in 1..Len(left) |-> MergedRows(left[i], right) ], 1, Len(left))

\* lines 76-77: fillna, and the two suffixed columns dropped
FillAmount(m) ==
    [ date |-> m.key.date, year |-> m.key.year, month |-> m.key.month,
      day |-> m.key.day, week |-> m.key.week,
      amount |-> IF m.amount_orig.nan THEN m.amount_all ELSE m.amount_orig.v ]

DenseGrid(df) ==
    LET merged == MergeLeft(AllDaysDf(AllDays(df)), df)
    IN  Tuple([ i \in 1..Len(merged) |-> FillAmount(merged[i]) ])

Reverse(s) == Tuple([ i \in 1..Len(s) |-> s[Len(s) + 1 - i] ])

\* line 99: pivot(index='week', columns='day', values='amount'): weeks and days
\* ascending, a missing combination NaN; a combination held by two rows raises
PivotDuplicates(month_data) ==
    Cardinality({ << month_data[i].week, month_data[i].day >> : i \in 1..Len(month_data) })
        < Len(month_data)

PivotRow(week_data, columns) ==
    Tuple([ c \in 1..Len(columns) |->
        LET hits == SelectSeq(week_data, LAMBDA r : r.day = columns[c])
        IN  IF hits = << >> THEN NaN ELSE Num(hits[1].amount) ])

Pivot(month_data) ==
    LET index   == SortedSeq({ month_data[i].week : i \in 1..Len(month_data) })
        columns == SortedSeq({ month_data[i].day : i \in 1..Len(month_data) })
    IN  [ index   |-> index,
          columns |-> columns,
          values  |-> Tuple([ r \in 1..Len(index) |->
                          PivotRow(SelectSeq(month_data, LAMBDA d : d.week = index[r]),
                                   columns) ]) ]

\* line 99: sort_index(ascending=False)
SortIndexDescending(p) ==
    [ p EXCEPT !.index = Reverse(p.index), !.values = Reverse(p.values) ]

\* line 100: reindex(columns=range(7), fill_value=0): a column the frame has keeps
\* its values, a column it lacks is filled
ReindexColumns(p) ==
    [ index   |-> p.index,
      columns |-> Tuple([ c \in 1..7 |-> c - 1 ]),
      values  |-> Tuple([ r \in 1..Len(p.index) |->
                      Tuple([ c \in 1..7 |->
                          IF \E k \in 1..Len(p.columns) : p.columns[k] = c - 1
                          THEN p.values[r][CHOOSE k \in 1..Len(p.columns) : p.columns[k] = c - 1]
                          ELSE Num(0) ]) ]) ]

WeekdayLabels == << "Mon", "Tue", "Wed", "Thu", "Fri", "Sat", "Sun" >>

\* lines 98-111: one panel
MonthPanel(df, year, month) ==
    LET month_data == SelectSeq(df, LAMBDA r : r.year = year /\ r.month = month)
        pivot_df   == ReindexColumns(SortIndexDescending(Pivot(month_data)))
    IN  [ year   |-> year,
          month  |-> month,
          title  |-> ToStr(year) \o "-" \o Pad2(month),
          raises |-> PivotDuplicates(month_data),
          z      |-> pivot_df.values,
          x      |-> WeekdayLabels,
          y      |-> pivot_df.index ]

\* lines 80-81 and 96-97: years ascending, months 1..12 within each
Panels(df) ==
    LET years == SortedSeq({ df[i].year : i \in 1..Len(df) })
    IN  Tuple([ n \in 1..(12 * Len(years)) |->
            MonthPanel(df, years[((n - 1) \div 12) + 1], ((n - 1) % 12) + 1) ])

HeatmapFigure(ps) ==
    [ kind |-> "plotly_chart", title |-> "Monthly Heatmaps", traces |-> Len(ps) ]

----------------------------------------------------------------------------
(* The page script, lines 204-213 *)

Ledger == IF HasDf THEN session.df ELSE << >>

NoColorscale == << >>

Init ==
    /\ session \in {NoDf} \cup { [present |-> TRUE, df |-> l] : l \in Ledgers }
    /\ pc = "start"
    /\ error = "none"
    /\ bar_df = << >>
    /\ chart = "none"
    /\ metrics = NoMetrics
    /\ heat_df = << >>
    /\ grid = << >>
    /\ panels = << >>
    /\ min_val = 0
    /\ max_val = 0
    /\ custom_colorscale = NoColorscale
    /\ out = << >>

\* line 204
Markdown ==
    /\ pc = "start"
    /\ out' = Append(out, [kind |-> "markdown", title |-> "# Visualizations"])
    /\ pc' = "titled"
    /\ UNCHANGED <<session, error, bar_df, chart, metrics, heat_df, grid, panels,
                   min_val, max_val, custom_colorscale>>

\* line 207, the argument
PrepareBar ==
    /\ pc = "titled"
    /\ HasDf
    /\ bar_df' = prepare_data_for_stacked_bar_chart(session.df)
    /\ pc' = "bar_prepared"
    /\ UNCHANGED <<session, error, chart, metrics, heat_df, grid, panels,
                   min_val, max_val, custom_colorscale, out>>

\* line 207, the call: show_stacked_bar_chart, lines 128-201
ShowStackedBarChart ==
    /\ pc = "bar_prepared"
    /\ \E result \in ChartResults :
        /\ chart' = result
        /\ IF result = "raises"
           THEN /\ error' = "plotly_chart"
                /\ pc' = "crashed"
                /\ UNCHANGED <<metrics, out>>
           ELSE \E m \in { Metrics(bar_df) } :
                    /\ metrics' = m
                    /\ IF m.savings_rate.zerodiv
                       THEN /\ error' = "ZeroDivisionError"
                            /\ pc' = "crashed"
                            /\ out' = Append(out, CashFlowFigure(bar_df))
                       ELSE /\ error' = "none"
                            /\ pc' = "bar_shown"
                            /\ out' = Append(out, CashFlowFigure(bar_df))
                                        \o RenderedMetrics(result, m)
    /\ UNCHANGED <<session, bar_df, heat_df, grid, panels,
                   min_val, max_val, custom_colorscale>>

\* line 208, the argument
PrepareHeatmapData ==
    /\ pc = "bar_shown"
    /\ heat_df' = prepare_heatmap_data(session.df)
    /\ pc' = "heat_prepared"
    /\ UNCHANGED <<session, error, bar_df, chart, metrics, grid, panels,
                   min_val, max_val, custom_colorscale, out>>

\* line 208, the call: show_monthly_heatmaps, lines 65-126.  On an empty frame
\* df['year'].min() is NaN and pd.date_range("nan-01-01", ...) raises ValueError.
ShowMonthlyHeatmaps ==
    /\ pc = "heat_prepared"
    /\ IF heat_df = << >>
       THEN /\ error' = "ValueError"
            /\ pc' = "crashed"
            /\ UNCHANGED <<grid, panels, min_val, max_val, custom_colorscale, out>>
       ELSE \E df \in { DenseGrid(heat_df) } :
            \E ps \in { Panels(df) } :
                /\ grid' = df
                /\ min_val' = MinVal
                /\ max_val' = MaxVal
                /\ custom_colorscale' = create_custom_colorscale(MinVal, MaxVal)
                /\ IF \E n \in 1..Len(ps) : ps[n].raises
                   THEN /\ error' = "ValueError"
                        /\ pc' = "crashed"
                        /\ UNCHANGED <<panels, out>>
                   ELSE /\ error' = "none"
                        /\ pc' = "done"
                        /\ panels' = ps
                        /\ out' = Append(out, HeatmapFigure(ps))
    /\ UNCHANGED <<session, bar_df, chart, metrics, heat_df>>

\* lines 210-213
ShowConvertButton ==
    /\ pc = "titled"
    /\ ~HasDf
    /\ \E switch_page_button \in BOOLEAN :
        /\ out' = Append(out, [kind |-> "button", title |-> "Convert a bank statement"])
        /\ pc' = IF switch_page_button THEN "switch_page" ELSE "done"
    /\ UNCHANGED <<session, error, bar_df, chart, metrics, heat_df, grid, panels,
                   min_val, max_val, custom_colorscale>>

Next ==
    \/ Markdown
    \/ PrepareBar
    \/ ShowStackedBarChart
    \/ PrepareHeatmapData
    \/ ShowMonthlyHeatmaps
    \/ ShowConvertButton

Spec == Init /\ [][Next]_vars

----------------------------------------------------------------------------
(* create_custom_colorscale on its own, over a range of arguments *)

InitColorscale ==
    /\ session = NoDf
    /\ pc = "colorscale"
    /\ error = "none"
    /\ bar_df = << >>
    /\ chart = "none"
    /\ metrics = NoMetrics
    /\ heat_df = << >>
    /\ grid = << >>
    /\ panels = << >>
    /\ min_val \in ColorVals
    /\ max_val \in ColorVals
    /\ min_val < max_val
    /\ custom_colorscale = NoColorscale
    /\ out = << >>

CreateCustomColorscale ==
    /\ pc = "colorscale"
    /\ custom_colorscale' = create_custom_colorscale(min_val, max_val)
    /\ pc' = "colorscale_done"
    /\ UNCHANGED <<session, error, bar_df, chart, metrics, heat_df, grid, panels,
                   min_val, max_val, out>>

NextColorscale == CreateCustomColorscale

SpecColorscale == InitColorscale /\ [][NextColorscale]_vars

----------------------------------------------------------------------------
(* Properties *)

BarComputed == pc \in { "bar_prepared", "bar_shown", "heat_prepared", "done", "crashed" }

LedgerAmounts == [ i \in 1..Len(Ledger) |-> Ledger[i].amount ]

\* calendar year and month count of a ledger date, read off the date itself
CivilYears == { Ledger[i].date[1] : i \in 1..Len(Ledger) }
CivilMonths == { Ledger[i].date[1] * 12 + (Ledger[i].date[2] - 1) : i \in 1..Len(Ledger) }

\* C1: for a non-empty ledger the dense grid holds exactly one cell for each
\* date from 1 January of the smallest transaction year to 31 December of the
\* largest, in order: none missing, none twice, none outside; its length is
\* the number of days of those years (366 for a single leap year).
C1_GridCoversWholeYears ==
    (pc = "done" /\ HasDf) =>
        \A first \in { ToOrdinal(SetMin(CivilYears), 1, 1) } :
            /\ Len(grid) = SumRange([ y \in SetMin(CivilYears)..SetMax(CivilYears)
                                        |-> DaysInYear(y) ],
                                     SetMin(CivilYears), SetMax(CivilYears))
            /\ \A i \in 1..Len(grid) : grid[i].date = first + i - 1
            /\ grid[1].year = SetMin(CivilYears) /\ grid[1].month = 1
            /\ DayOf(grid[1].date) = 1
            /\ grid[Len(grid)].year = SetMax(CivilYears) /\ grid[Len(grid)].month = 12
            /\ DayOf(grid[Len(grid)].date) = 31

\* C1 witness: every transaction on one date of leap year 2024, and 366 cells
C1_Witness ==
    /\ pc = "done"
    /\ HasDf
    /\ Len(Ledger) = 2
    /\ \A i \in 1..Len(Ledger) : Ledger[i].date = <<2024, 2, 29>>
    /\ Len(grid) = 366

\* C2: the cells' amounts sum to the ledger's amounts; a day without a
\* transaction holds 0 and a day with transactions their signed total.
C2_GridConservesAmounts ==
    (pc = "done" /\ HasDf) =>
        \A rows \in { HeatRows(Ledger) } :
            /\ Sum([ i \in 1..Len(grid) |-> grid[i].amount ]) = Sum(LedgerAmounts)
            /\ \A i \in 1..Len(grid) :
                 grid[i].amount =
                     Sum([ k \in 1..Len(rows) |->
                             IF rows[k].date = grid[i].date THEN rows[k].amount ELSE 0 ])

\* C2 witness: two transactions of different non-zero amounts on one day, whose
\* cell holds their total
C2_Witness ==
    /\ pc = "done"
    /\ HasDf
    /\ Len(Ledger) = 2
    /\ Ledger[1].date = <<2024, 2, 29>>
    /\ Ledger[2].date = <<2024, 2, 29>>
    /\ Ledger[1].amount = 6
    /\ Ledger[2].amount = 1
    /\ \E i \in 1..Len(grid) : grid[i].amount = 7 /\ grid[i].month = 2 /\ grid[i].week = 9

\* C3: total Income minus total Expenses over the buckets is the sum of the
\* ledger's signed amounts; Income collects the positive amounts, Expenses the
\* absolute values of the negative ones, a zero amount adds to neither.
C3_BucketsConserveTotals ==
    BarComputed =>
        /\ IncomeSum(bar_df) - ExpensesSum(bar_df) = Sum(LedgerAmounts)
        /\ IncomeSum(bar_df)
             = Sum([ i \in 1..Len(Ledger) |->
                       IF LedgerAmounts[i] > 0 THEN LedgerAmounts[i] ELSE 0 ])
        /\ ExpensesSum(bar_df)
             = Sum([ i \in 1..Len(Ledger) |->
                       IF LedgerAmounts[i] < 0 THEN - LedgerAmounts[i] ELSE 0 ])

\* C3 witness: an income and an expense in different months
C3_Witness ==
    /\ pc = "bar_prepared"
    /\ Len(Ledger) = 2
    /\ Ledger[1].amount = 6
    /\ Ledger[2].amount = -6
    /\ Ledger[1].date[1] # Ledger[2].date[1]
    /\ IncomeSum(bar_df) = 6
    /\ ExpensesSum(bar_df) = 6

\* C4 as stated: buckets in chronological order, no month twice, and a month has
\* a bucket if and only if a transaction's date falls in it.
C4_BucketIffMonthPresent ==
    BarComputed =>
        /\ \A i, j \in 1..Len(bar_df) : i < j => bar_df[i].month < bar_df[j].month
        /\ { bar_df[i].month : i \in 1..Len(bar_df) } = CivilMonths

\* C4 amended: buckets in chronological order, no month twice, one for every
\* calendar month from the earliest transaction's month to the latest's, a month
\* without transactions holding zero sums; no bucket for an empty ledger.
C4_BucketPerMonthOfSpan ==
    BarComputed =>
        IF Ledger = << >> THEN bar_df = << >>
        ELSE /\ Len(bar_df) = SetMax(CivilMonths) - SetMin(CivilMonths) + 1
             /\ \A i \in 1..Len(bar_df) :
                  /\ bar_df[i].month = SetMin(CivilMonths) + i - 1
                  /\ bar_df[i].month \notin CivilMonths =>
                       /\ bar_df[i].Income = 0
                       /\ bar_df[i].Expenses = 0
                       /\ bar_df[i].amount = 0

\* C4 witness: January 2023 and February 2024 hold transactions, and the span
\* gets fourteen buckets, twelve of them for months without a transaction
C4_Witness ==
    /\ pc = "bar_prepared"
    /\ Cardinality(CivilMonths) = 2
    /\ Len(bar_df) = 14
    /\ \E i \in 1..Len(bar_df) : bar_df[i].month \notin CivilMonths

\* C5: when the (rounded) total income is 0 the savings rate is 0 and is shown
\* as "0.00%" whatever the expenses; the division never sees a zero divisor.
C5_ZeroIncomeZeroRate ==
    /\ error # "ZeroDivisionError"
    /\ metrics.computed =>
        /\ ~ metrics.savings_rate.zerodiv
        /\ metrics.total_income = 0 =>
             /\ metrics.savings_rate.num = 0
             /\ metrics.formatted_savings_rate = "0.00%"
             /\ \A i \in 1..Len(out) :
                  (out[i].kind = "metric" /\ out[i].title = "Savings Rate")
                      => out[i].value = "0.00%"

\* C5 witness: a positive income that rounds to 0, positive expenses, and the
\* rate displayed
C5_Witness ==
    /\ metrics.computed
    /\ metrics.total_income = 0
    /\ metrics.total_expenses > 0
    /\ IncomeSum(bar_df) > 0
    /\ \E i \in 1..Len(out) :
         out[i].kind = "metric" /\ out[i].title = "Savings Rate" /\ out[i].value = "0.00%"

\* C6 as stated: with a ledger that holds no transactions the aggregation yields
\* no bucket and the heatmap stage does not raise.
C6_EmptyLedgerDoesNotCrash ==
    (HasDf /\ Ledger = << >>) =>
        /\ BarComputed => bar_df = << >>
        /\ error # "ValueError"

MetricsRendered ==
    SelectSeq(out, LAMBDA e : e.kind = "metric")

\* C7: no metric is rendered before the cash-flow chart is drawn; none is
\* rendered when the draw raises or returns a falsy value; when it returns a
\* truthy one the four are rendered in the order Income, Expenses, Total
\* Savings, Savings Rate.
C7_MetricsOnlyAfterChart ==
    /\ \A i \in 1..Len(out) :
         out[i].kind = "metric" =>
             \E j \in 1..(i - 1) : out[j].kind = "plotly_chart" /\ out[j].title = "Cash Flow"
    /\ chart \in { "none", "raises", "falsy" } => MetricsRendered = << >>
    /\ chart = "raises" => \A i \in 1..Len(out) : out[i].kind # "plotly_chart"
    /\ (chart = "truthy" /\ error = "none") =>
         /\ Len(MetricsRendered) = 4
         /\ MetricsRendered[1].title = "Income"
         /\ MetricsRendered[2].title = "Expenses"
         /\ MetricsRendered[3].title = "Total Savings"
         /\ MetricsRendered[4].title = "Savings Rate"

\* C7 witness: the chart drawn, then the four metrics
C7_Witness ==
    /\ chart = "truthy"
    /\ pc = "bar_shown"
    /\ Len(out) = 6
    /\ out[2].kind = "plotly_chart"
    /\ out[3].kind = "metric"
    /\ out[6].title = "Savings Rate"

\* the grid's dates of panel p that lie in the ISO week of its row r
RowDates(p, r) ==
    { grid[i].date : i \in { k \in 1..Len(grid) :
                               /\ grid[k].year = p.year
                               /\ grid[k].month = p.month
                               /\ grid[k].week = p.y[r] } }

\* C8 as stated: in every panel a row placed higher holds later dates than a
\* row placed lower.
C8_HigherRowIsLater ==
    pc = "done" =>
        \A n \in 1..Len(panels) :
            \A i, j \in 1..Len(panels[n].y) :
                i < j => \A a \in RowDates(panels[n], i) :
                             \A b \in RowDates(panels[n], j) : a > b

\* C9 as stated: every panel's matrix has the seven weekday columns Mon..Sun,
\* and a (week, weekday) combination without a cell holds 0, never NaN.
C9_SevenColumnsZeroFilled ==
    pc = "done" =>
        \A n \in 1..Len(panels) :
            /\ panels[n].x = << "Mon", "Tue", "Wed", "Thu", "Fri", "Sat", "Sun" >>
            /\ \A r \in 1..Len(panels[n].z) :
                 /\ Len(panels[n].z[r]) = 7
                 /\ \A c \in 1..7 : ~ panels[n].z[r][c].nan

PositionLess(p, q) == p.num * q.den < q.num * p.den

\* C10: for min_val < max_val the result holds the anchors -1000, -100, -10, 0,
\* 10, 100, 1000 in that order, at positions (v - min_val)/(max_val - min_val)
\* that increase strictly, with the seven fixed colours; an anchor equal to
\* min_val is at 0 and one equal to max_val at 1; for (-1000, 1000) the first
\* is at 0, the last at 1 and white at 1/2.
C10_ColorscaleAnchors ==
    pc = "colorscale_done" =>
        \A anchors \in { << -1000, -100, -10, 0, 10, 100, 1000 >> } :
            /\ Len(custom_colorscale) = 7
            /\ \A i \in 1..7 :
                 /\ ~ custom_colorscale[i][1].zerodiv
                 /\ custom_colorscale[i][1].den > 0
                 /\ custom_colorscale[i][1].num * (max_val - min_val)
                      = (anchors[i] - min_val) * custom_colorscale[i][1].den
                 /\ anchors[i] = min_val => custom_colorscale[i][1].num = 0
                 /\ anchors[i] = max_val =>
                      custom_colorscale[i][1].num = custom_colorscale[i][1].den
            /\ \A i \in 1..6 : PositionLess(custom_colorscale[i][1], custom_colorscale[i + 1][1])
            /\ << custom_colorscale[1][2], custom_colorscale[2][2], custom_colorscale[3][2],
                  custom_colorscale[4][2], custom_colorscale[5][2], custom_colorscale[6][2],
                  custom_colorscale[7][2] >>
                 = << "rgb(139,0,0)", "rgb(255,0,0)", "rgb(255,200,200)", "rgb(255,255,255)",
                      "rgb(200,255,200)", "rgb(0,255,0)", "rgb(0,100,0)" >>
            /\ (min_val = -1000 /\ max_val = 1000) =>
                 /\ custom_colorscale[1][1].num = 0
                 /\ custom_colorscale[7][1].num = custom_colorscale[7][1].den
                 /\ 2 * custom_colorscale[4][1].num = custom_colorscale[4][1].den

\* C10 witness: the heatmap's bounds, white half-way
C10_Witness ==
    /\ pc = "colorscale_done"
    /\ min_val = -1000
    /\ max_val = 1000
    /\ custom_colorscale[4] = << [zerodiv |-> FALSE, num |-> 1000, den |-> 2000], "rgb(255,255,255)" >>

====
